---- MODULE Spec2Model ----
(***************************************************************************)
(* Model of app.py, the Streamlit incident dashboard: one script that is   *)
(* re-executed from top to bottom on every widget interaction.  A run      *)
(* loads the cached table, builds the four dropdowns from the full table,  *)
(* filters a copy of the table, computes the metrics and the group-by      *)
(* projections and renders them.                                           *)
(*                                                                         *)
(* Encoding of pandas values.  A text or year cell is a string; a missing  *)
(* cell is the string NaN.  Year cells are written as numerals and ordered *)
(* by Collation, which orders them numerically.  A nullable number (the    *)
(* result of mean, or of reindex) is a sequence: <<>> is NaN, <<n>> is the *)
(* number n, and <<s, n>> is the quotient s / n.                           *)
(***************************************************************************)
EXTENDS Integers, Sequences, FiniteSets

\* ------------------------------------------------------------------ bounds
\* Longest table read from cleaned_incidents.csv.
MaxLen == 2

\* Saturation of the counter of reads of the file.
MaxReads == 2

\* ------------------------------------------------------------------ values
NaN == "NaN"
All == "All"
NaNf == <<>>

\* Python's ordering of the cell values that occur in the tables below
\* (numeric for the years, lexicographic for the text columns).
Collation == <<"2022", "2023", "February", "Fire", "Flood", "January",
               "StateA", "StateB">>

Rank(v) == CHOOSE i \in 1..Len(Collation) : Collation[i] = v

Less(a, b) == Rank(a) < Rank(b)

\* ------------------------------------------------------------------ inputs
BaseRecord ==
    [States |-> "StateA", Year |-> "2022", Month_Name |-> "January",
     Incident_Type |-> "Flood", Identifier |-> "id",
     deaths |-> 1, Duration_days |-> 2]

RecordSpace ==
    [States : {"StateA", "StateB", NaN}, Year : {"2022", "2023", NaN},
     Month_Name : {"January", "February", NaN},
     Incident_Type : {"Flood", "Fire", NaN}, Identifier : {"id", NaN},
     deaths : {0, 1}, Duration_days : {2, 3}]

\* The rows a table is made of: the base row and every row that differs
\* from it in one cell (another value, or a missing value).
Records ==
    {r \in RecordSpace :
        Cardinality({c \in DOMAIN BaseRecord : r[c] # BaseRecord[c]}) <= 1}

Datasets == UNION {[1..n -> Records] : n \in 0..MaxLen}

\* ------------------------------------------------------------------ pandas
\* Series of one column.
Col(d, c) == [i \in 1..Len(d) |-> d[i][c]]

isna(v) == v = NaN

\* Elementwise ==: a missing value equals nothing, itself included.
Eq(a, b) == ~isna(a) /\ ~isna(b) /\ a = b

IsNotNa(v) == ~isna(v)

dropna(s) == SelectSeq(s, IsNotNa)

\* Distinct values in order of first appearance; all missing values count
\* as one value.
RECURSIVE unique(_)
unique(s) ==
    IF s = <<>> THEN <<>>
    ELSE LET r == unique(SubSeq(s, 1, Len(s) - 1))
             x == s[Len(s)]
         IN  IF \E i \in 1..Len(r) : r[i] = x THEN r ELSE Append(r, x)

\* Python's sorted(): ascending and stable.
RECURSIVE sorted(_)
sorted(s) ==
    IF s = <<>> THEN <<>>
    ELSE LET r == sorted(SubSeq(s, 1, Len(s) - 1))
             x == s[Len(s)]
             k == Cardinality({i \in 1..Len(r) : ~Less(x, r[i])})
         IN  SubSeq(r, 1, k) \o <<x>> \o SubSeq(r, k + 1, Len(r))

\* Boolean-mask row selection d[d[c] == v].
Mask(d, c, v) == LET keep(r) == Eq(r[c], v) IN SelectSeq(d, keep)

RECURSIVE sum(_)
sum(s) == IF s = <<>> THEN 0 ELSE s[1] + sum(Tail(s))

\* ------------------------------------------------------------------- state
VARIABLES
    csv,                 \* rows of cleaned_incidents.csv on disk
    cache,               \* st.cache_data entry of load_data: <<>> or <<table>>
    reads,               \* how often pd.read_csv has run in this process
    df,                  \* the table the current run works on
    state_options, year_options, month_order, month_options, incident_options,
    state_filter, year_filter, month_filter, incident_filter,
    filtered_df,
    total_incidents, total_deaths, avg_duration,
    fatalities_by_state, incidents_by_type, monthly_trend,
    fig4,                \* the rows handed to the scatter plot
    record_line          \* the count in the closing line: <<>> before a run

options == <<state_options, year_options, month_order, month_options,
             incident_options>>

selection == <<state_filter, year_filter, month_filter, incident_filter>>

outputs == <<filtered_df, total_incidents, total_deaths, avg_duration,
             fatalities_by_state, incidents_by_type, monthly_trend, fig4,
             record_line>>

vars == <<csv, cache, reads, df, options, selection, outputs>>

Elems(s) == {s[i] : i \in 1..Len(s)}

\* The script has run at least once in this process.
Started == record_line # <<>>

\* ------------------------------------------------------------------ script
\* Variant: no cache, the file is read on every run.
load_data_uncached(c, n, file) ==
    [df |-> file, cache |-> <<file>>,
     reads |-> IF n < MaxReads THEN n + 1 ELSE n]

\* load_data under @st.cache_data: the body runs on a cache miss only.
load_data(c, n, file) ==
    IF c = <<>>
    THEN [df |-> file, cache |-> <<file>>,
          reads |-> IF n < MaxReads THEN n + 1 ELSE n]
    ELSE [df |-> c[1], cache |-> c, reads |-> n]

\* Variant: the state dropdown offers the states of the filtered table.
StateOptions_narrowed(d) ==
    <<All>> \o sorted(unique(dropna(Col(filtered_df, "States"))))

StateOptions(d) == <<All>> \o sorted(unique(dropna(Col(d, "States"))))

YearOptions(d) == <<All>> \o sorted(unique(dropna(Col(d, "Year"))))

MonthOrder(d) == unique(Col(d, "Month_Name"))

MonthOptions(d) == <<All>> \o MonthOrder(d)

IncidentOptions(d) == <<All>> \o sorted(unique(dropna(Col(d, "Incident_Type"))))

\* Variant: no copy of the table, each run narrows the previous result.
ApplyFilters_incremental(d, sf, yf, mf, itf) ==
    LET f0 == IF Started THEN filtered_df ELSE d
        f1 == IF sf # All THEN Mask(f0, "States", sf) ELSE f0
        f2 == IF yf # All THEN Mask(f1, "Year", yf) ELSE f1
        f3 == IF mf # All THEN Mask(f2, "Month_Name", mf) ELSE f2
        f4 == IF itf # All THEN Mask(f3, "Incident_Type", itf) ELSE f3
    IN  f4

\* Variant: each mask is taken on the full table, so the last active
\* dropdown overrides the earlier ones.
ApplyFilters_overriding(d, sf, yf, mf, itf) ==
    LET f0 == d
        f1 == IF sf # All THEN Mask(d, "States", sf) ELSE f0
        f2 == IF yf # All THEN Mask(d, "Year", yf) ELSE f1
        f3 == IF mf # All THEN Mask(d, "Month_Name", mf) ELSE f2
        f4 == IF itf # All THEN Mask(d, "Incident_Type", itf) ELSE f3
    IN  f4

\* Lines 45-57: a copy of the table, narrowed once per active dropdown.
ApplyFilters(d, sf, yf, mf, itf) ==
    LET f0 == d
        f1 == IF sf # All THEN Mask(f0, "States", sf) ELSE f0
        f2 == IF yf # All THEN Mask(f1, "Year", yf) ELSE f1
        f3 == IF mf # All THEN Mask(f2, "Month_Name", mf) ELSE f2
        f4 == IF itf # All THEN Mask(f3, "Incident_Type", itf) ELSE f3
    IN  f4

\* Variant: the mean of no values is 0.
mean_zero(s) == IF s = <<>> THEN <<0, 1>> ELSE <<sum(s), Len(s)>>

\* Series.mean(): NaN on an empty series.
mean(s) == IF s = <<>> THEN NaNf ELSE <<sum(s), Len(s)>>

\* Group keys of groupby(c): missing keys dropped, keys sorted.
GroupKeys(d, c) == sorted(unique(dropna(Col(d, c))))

\* groupby(c)["Number of deaths"].sum().reset_index()
GroupSum(d, c) ==
    LET ks == GroupKeys(d, c)
    IN  [i \in 1..Len(ks) |->
            [key |-> ks[i], value |-> sum(Col(Mask(d, c, ks[i]), "deaths"))]]

\* groupby(c)["Identifier"].count(): non-missing identifiers per group.
GroupCount(d, c) ==
    LET ks == GroupKeys(d, c)
    IN  [i \in 1..Len(ks) |->
            [key |-> ks[i],
             value |-> Len(dropna(Col(Mask(d, c, ks[i]), "Identifier")))]]

\* Variant: ascending=True.
sort_values_ascending(rows) ==
    LET n == Len(rows)
        perms == {p \in [1..n -> 1..n] : \A i, j \in 1..n : i # j => p[i] # p[j]}
    IN  {[i \in 1..n |-> rows[p[i]]] : p \in
            {q \in perms : \A i, j \in 1..n :
                i < j => rows[q[i]].value <= rows[q[j]].value}}

\* sort_values(by="Number of deaths", ascending=False) with the default
\* kind="quicksort", which is not stable: every arrangement of the rows in
\* non-increasing order of value is a possible result.
sort_values(rows) ==
    LET n == Len(rows)
        perms == {p \in [1..n -> 1..n] : \A i, j \in 1..n : i # j => p[i] # p[j]}
    IN  {[i \in 1..n |-> rows[p[i]]] : p \in
            {q \in perms : \A i, j \in 1..n :
                i < j => rows[q[i]].value >= rows[q[j]].value}}

\* Variant: no reindex, the groups stay as groupby leaves them.
reindex_skipped(rows, labels) ==
    [i \in 1..Len(rows) |-> [key |-> rows[i].key, value |-> <<rows[i].value>>]]

\* Series.reindex(labels): one entry per label, NaN where the label is not
\* in the index (a missing label is never in the index of a groupby).
reindex(rows, labels) ==
    [i \in 1..Len(labels) |->
        [key |-> labels[i],
         value |-> IF \E j \in 1..Len(rows) : Eq(rows[j].key, labels[i])
                   THEN <<(rows[CHOOSE j \in 1..Len(rows) :
                                    Eq(rows[j].key, labels[i])]).value>>
                   ELSE NaNf]]

\* One execution of the script with the dropdowns at sf, yf, mf, itf.
Run(sf, yf, mf, itf) ==
    LET ld == load_data(cache, reads, csv)
        d  == ld.df
        f  == ApplyFilters(d, sf, yf, mf, itf)
    IN  /\ cache' = ld.cache
        /\ reads' = ld.reads
        /\ df' = d
        /\ state_options' = StateOptions(d)
        /\ year_options' = YearOptions(d)
        /\ month_order' = MonthOrder(d)
        /\ month_options' = MonthOptions(d)
        /\ incident_options' = IncidentOptions(d)
        /\ state_filter' = sf
        /\ year_filter' = yf
        /\ month_filter' = mf
        /\ incident_filter' = itf
        /\ filtered_df' = f
        /\ total_incidents' = Len(f)
        /\ total_deaths' = sum(Col(f, "deaths"))
        /\ avg_duration' = mean(Col(f, "Duration_days"))
        /\ fatalities_by_state' \in sort_values(GroupSum(f, "States"))
        /\ incidents_by_type' = GroupCount(f, "Incident_Type")
        /\ monthly_trend' = reindex(GroupCount(f, "Month_Name"), MonthOrder(d))
        /\ fig4' = f
        /\ record_line' = <<Len(f)>>
        /\ UNCHANGED csv

\* ----------------------------------------------------------------- actions
Init ==
    /\ csv \in Datasets
    /\ cache = <<>>
    /\ reads = 0
    /\ df = <<>>
    /\ state_options = <<>> /\ year_options = <<>> /\ month_order = <<>>
    /\ month_options = <<>> /\ incident_options = <<>>
    /\ state_filter = All /\ year_filter = All
    /\ month_filter = All /\ incident_filter = All
    /\ filtered_df = <<>>
    /\ total_incidents = 0 /\ total_deaths = 0 /\ avg_duration = NaNf
    /\ fatalities_by_state = <<>> /\ incidents_by_type = <<>>
    /\ monthly_trend = <<>> /\ fig4 = <<>>
    /\ record_line = <<>>

\* A browser opens the page: every selectbox shows its first option.
NewSession == Run(All, All, All, All)

SelectState(v) ==
    /\ Started
    /\ v \in Elems(state_options) /\ v # state_filter
    /\ Run(v, year_filter, month_filter, incident_filter)

SelectYear(v) ==
    /\ Started
    /\ v \in Elems(year_options) /\ v # year_filter
    /\ Run(state_filter, v, month_filter, incident_filter)

SelectMonth(v) ==
    /\ Started
    /\ v \in Elems(month_options) /\ v # month_filter
    /\ Run(state_filter, year_filter, v, incident_filter)

SelectIncident(v) ==
    /\ Started
    /\ v \in Elems(incident_options) /\ v # incident_filter
    /\ Run(state_filter, year_filter, month_filter, v)

Values == {All, NaN} \cup Elems(Collation)

Next ==
    \/ NewSession
    \/ \E v \in Values : SelectState(v)
    \/ \E v \in Values : SelectYear(v)
    \/ \E v \in Values : SelectMonth(v)
    \/ \E v \in Values : SelectIncident(v)

Spec == Init /\ [][Next]_vars

\* ------------------------------------------------------------ vocabulary
FilterCols == {"States", "Year", "Month_Name", "Incident_Type"}

Sel == [c \in FilterCols |->
          CASE c = "States" -> state_filter
            [] c = "Year" -> year_filter
            [] c = "Month_Name" -> month_filter
            [] c = "Incident_Type" -> incident_filter]

Active == {c \in FilterCols : Sel[c] # All}

\* The current selection with every dropdown outside D put back to "All".
Only(D) == [c \in FilterCols |-> IF c \in D THEN Sel[c] ELSE All]

Filter(d, s) == ApplyFilters(d, s.States, s.Year, s.Month_Name, s.Incident_Type)

Rows(d) == {d[i] : i \in 1..Len(d)}

NoRepeat(s) == \A i, j \in 1..Len(s) : s[i] = s[j] => i = j

SumValues(rows) == sum([i \in 1..Len(rows) |-> rows[i].value])

\* Position of the first row of the Filtered View with key k in column c.
FirstSeen(c, k) == CHOOSE i \in 1..Len(filtered_df) :
                      /\ filtered_df[i][c] = k
                      /\ \A j \in 1..(i - 1) : filtered_df[j][c] # k

\* --------------------------------------------------------------------- C1
\* A row passes when, in every dropdown that is not at "All", its cell is
\* present and equals the selection (pandas' ==, under which a missing cell
\* equals nothing).
Passes(r) ==
    \A c \in FilterCols : Sel[c] = All \/ (r[c] # NaN /\ r[c] = Sel[c])

\* C1: after any sequence of selection changes the Filtered View is exactly
\* the subsequence of the Dataset, in dataset order, of the rows whose cell
\* equals the current selection in every dropdown not at "All"; it is a
\* subset of the Dataset, a function of the current selection only, and the
\* whole Dataset when all four dropdowns are at "All".
C1_FilteredView ==
    Started =>
        /\ filtered_df = SelectSeq(df, Passes)
        /\ Rows(filtered_df) \subseteq Rows(df)
        /\ (Active = {} => filtered_df = df)

C1_Witness ==
    /\ Started
    /\ state_filter = "StateA" /\ year_filter = "2023"
    /\ month_filter = All /\ incident_filter = All
    /\ Len(df) = 2 /\ Len(filtered_df) = 1
    /\ filtered_df[1] = df[2]

\* --------------------------------------------------------------------- C2
\* C2: the filters compose conjunctively and in any order: with two
\* dropdowns active, the Filtered View (both applied at once) is the result
\* of filtering by the first alone and then filtering that result by the
\* second alone, for both orders of the two.
C2_Compose ==
    Started =>
        \A c1, c2 \in FilterCols :
            (c1 # c2 /\ Active = {c1, c2}) =>
                filtered_df = Filter(Filter(df, Only({c1})), Only({c2}))

C2_Witness ==
    /\ Started
    /\ Active = {"Month_Name", "Incident_Type"}
    /\ Len(df) = 2 /\ Len(filtered_df) = 1
    /\ Len(Filter(df, Only({"Month_Name"}))) = 2

\* --------------------------------------------------------------------- C3
\* C3: the per-state death sums of fatalities_by_state add up to
\* total_deaths, also when rows of the Filtered View have no State.
C3_StateSumsAddUp ==
    Started => SumValues(fatalities_by_state) = total_deaths

\* --------------------------------------------------------------------- C4
\* C4: the per-type counts of incidents_by_type add up to total_incidents,
\* also when rows have no Incident_Type or no Identifier.
C4_TypeCountsAddUp ==
    Started => SumValues(incidents_by_type) = total_incidents

\* --------------------------------------------------------------------- C5
\* The run left an empty Filtered View.
ZeroMatch == Started /\ filtered_df = <<>>

\* C5 as claimed: a selection that matches no row ends the run with
\* total_incidents = 0, total_deaths = 0, avg_duration = NaN, all four
\* projections empty and the closing line reporting 0 records.
C5_Original ==
    ZeroMatch =>
        /\ total_incidents = 0 /\ total_deaths = 0 /\ avg_duration = NaNf
        /\ fatalities_by_state = <<>> /\ incidents_by_type = <<>>
        /\ monthly_trend = <<>> /\ fig4 = <<>>
        /\ record_line = <<0>>

\* C5 as amended: as above, except that monthly_trend is not empty: it has
\* one row per month of the full table, each with a missing count.
C5_EmptyView ==
    ZeroMatch =>
        /\ total_incidents = 0 /\ total_deaths = 0 /\ avg_duration = NaNf
        /\ fatalities_by_state = <<>> /\ incidents_by_type = <<>>
        /\ fig4 = <<>>
        /\ Len(monthly_trend) = Len(month_order)
        /\ \A i \in 1..Len(monthly_trend) :
              monthly_trend[i] = [key |-> month_order[i], value |-> NaNf]
        /\ record_line = <<0>>

C5_Witness ==
    /\ ZeroMatch
    /\ Active = {"States", "Year"}
    /\ Len(df) = 2 /\ Len(monthly_trend) = 1

\* --------------------------------------------------------------------- C6
StatesPresent == {r.States : r \in Rows(filtered_df)} \ {NaN}

DeathsOf(k) ==
    LET in(r) == r.States = k IN sum(Col(SelectSeq(filtered_df, in), "deaths"))

\* One row per state of the Filtered View, with that state's death sum, in
\* non-increasing order of the sums.
C6_RowsAndOrder ==
    /\ NoRepeat(fatalities_by_state)
    /\ {fatalities_by_state[i].key : i \in 1..Len(fatalities_by_state)}
           = StatesPresent
    /\ Len(fatalities_by_state) = Cardinality(StatesPresent)
    /\ \A i \in 1..Len(fatalities_by_state) :
          fatalities_by_state[i].value = DeathsOf(fatalities_by_state[i].key)
    /\ \A i, j \in 1..Len(fatalities_by_state) :
          i < j => fatalities_by_state[i].value >= fatalities_by_state[j].value

\* C6 as claimed: fatalities_by_state has one row per state present, with
\* the state's death sum, ordered by non-increasing sum, and states with
\* equal sums stand in the order in which the Filtered View first shows them.
C6_Original ==
    Started =>
        /\ C6_RowsAndOrder
        /\ \A i, j \in 1..Len(fatalities_by_state) :
              (i < j /\ fatalities_by_state[i].value = fatalities_by_state[j].value)
                  => FirstSeen("States", fatalities_by_state[i].key)
                         < FirstSeen("States", fatalities_by_state[j].key)

\* C6 as amended: fatalities_by_state has one row per state present, with
\* the state's death sum, ordered by non-increasing sum; the order of states
\* with equal sums is not fixed by their order in the Filtered View.
C6_ByState == Started => C6_RowsAndOrder

C6_Witness ==
    /\ Started
    /\ Len(fatalities_by_state) = 2
    /\ fatalities_by_state[1] = [key |-> "StateB", value |-> 1]
    /\ fatalities_by_state[2] = [key |-> "StateA", value |-> 0]

\* --------------------------------------------------------------------- C7
HasMonth(m) == \E r \in Rows(filtered_df) : r.Month_Name = m

CountMonth(m) ==
    LET in(r) == r.Month_Name = m IN Len(SelectSeq(filtered_df, in))

CountMonthWithId(m) ==
    LET in(r) == r.Month_Name = m /\ r.Identifier # NaN
    IN  Len(SelectSeq(filtered_df, in))

\* C7 as claimed: monthly_trend has one entry per month of the full table,
\* in the full table's first-seen order, and each entry is the number of
\* rows of the Filtered View with that month, 0 when there is none.
C7_Original ==
    Started =>
        /\ Len(monthly_trend) = Len(month_order)
        /\ \A i \in 1..Len(monthly_trend) :
              monthly_trend[i] =
                  [key |-> month_order[i], value |-> <<CountMonth(month_order[i])>>]

\* C7 as amended: monthly_trend has one entry per month value of the full
\* table, in the full table's first-seen order; the entry of a present month
\* that occurs in the Filtered View is the number of the view's rows with
\* that month and an Identifier, and every other entry (a month without a
\* matching row, the missing month) is missing (NaN), not 0.
C7_MonthlyTrend ==
    Started =>
        /\ month_order = unique(Col(df, "Month_Name"))
        /\ Len(monthly_trend) = Len(month_order)
        /\ \A i \in 1..Len(monthly_trend) :
              LET m == month_order[i] IN
              monthly_trend[i] =
                  [key |-> m,
                   value |-> IF m # NaN /\ HasMonth(m)
                             THEN <<CountMonthWithId(m)>> ELSE NaNf]

C7_Witness ==
    /\ Started
    /\ month_order = <<"January", "February">>
    /\ Active # {}
    /\ monthly_trend = <<[key |-> "January", value |-> NaNf],
                         [key |-> "February", value |-> <<1>>]>>

\* --------------------------------------------------------------------- C8
OptionsOfFullTable ==
    /\ Elems(state_options') = {All} \cup (Rows(Col(df', "States")) \ {NaN})
    /\ Elems(year_options') = {All} \cup (Rows(Col(df', "Year")) \ {NaN})
    /\ Elems(month_options') = {All} \cup Rows(Col(df', "Month_Name"))
    /\ Elems(incident_options') =
           {All} \cup (Rows(Col(df', "Incident_Type")) \ {NaN})
    /\ \A o \in {state_options', year_options', month_options',
                 incident_options'} : o[1] = All /\ NoRepeat(o)

Frame(c) ==
    /\ Sel[c]' # Sel[c]
    /\ \A o \in FilterCols \ {c} : Sel[o]' = Sel[o]
    /\ options' = options
    /\ OptionsOfFullTable

\* C8: a selection change in one dropdown changes that selection only: the
\* other three selections and the four option lists stay as they are, each
\* list being "All" followed by the distinct values of the full table.
C8_OneDimension ==
    [][ /\ SelectState(state_filter') => Frame("States")
        /\ SelectYear(year_filter') => Frame("Year")
        /\ SelectMonth(month_filter') => Frame("Month_Name")
        /\ SelectIncident(incident_filter') => Frame("Incident_Type")
      ]_vars

C8_Witness ==
    /\ Started
    /\ Active = {"States", "Incident_Type"}
    /\ Len(filtered_df) < Len(df)
    /\ Len(state_options) = 3 /\ Len(incident_options) = 3

\* --------------------------------------------------------------------- C9
\* C9: the file is read at most once in the life of the process, and once
\* loaded the Dataset keeps its rows and their order through every later
\* selection change and run.
C9_LoadedOnce ==
    [][reads' <= 1 /\ (Started => df' = df)]_vars

C9_Witness ==
    /\ Started
    /\ reads = 1
    /\ cache = <<df>> /\ Len(df) = 2
    /\ Active = {"Year"} /\ Len(filtered_df) = 1

\* -------------------------------------------------------------------- C10
\* C10: an option other than "All", selected alone, never gives an empty
\* Filtered View; this holds for the month dropdown as well.
C10_OptionsMatch ==
    Started =>
        \A c \in FilterCols : Active = {c} => filtered_df # <<>>

====
